---- MODULE Spec2Model ----
(***************************************************************************)
(* A model of python_sample/mrr2csv.py: the script that scans a folder of  *)
(* Missing Register Readings reports, extracts a read cycle, a schedule    *)
(* date and seven labelled counts from each, stores them in outputMatrix   *)
(* at row billingMonth * 100 + readCycle, and writes output.csv month by   *)
(* month.                                                                  *)
(*                                                                         *)
(* A report line is modelled by what the script reads of it: the phrases   *)
(* it contains and the character slices line[39:41], line[46:48],          *)
(* line[49:52], line[53:55] and line[73:].  Slices are sequences of        *)
(* one-character strings, so that int() is computed, not assumed.          *)
(***************************************************************************)
EXTENDS Integers, Sequences, FiniteSets, TLC

VARIABLES reportsFolder, fileArray, pc, fileIndex, env, resultsArray,
          outputMatrix, outputMonthsArray, csvOutputFile, console

vars == <<reportsFolder, fileArray, pc, fileIndex, env, resultsArray,
          outputMatrix, outputMonthsArray, csvOutputFile, console>>

---------------------------------------------------------------------------
(* Python values: the matrix and the CSV rows hold both strings and ints.  *)

PyInt(n) == [n |-> n]
PyStr(s) == [s |-> s]
IsInt(v) == DOMAIN v = {"n"}

(* Configuration, lines 61-82. *)

searchArray ==
    << "Total number of PODs requested - On Cycle",
       "Number of PODs OC with readings provided for entire configuration",
       "Total number of PODs requested - Exceptions",
       "Number of PODs EXC with readings provided for entire configuration",
       "Number of PODs EXC with no readings provided at all",
       "Number of PODs EXC with actual readings provided",
       "Number of PODs EXC with estimated readings provided" >>

csvHeadingArray ==
    << "Cycle",
       "Total Number of PODs Requested on Cycle",
       "Number of PODs with Readings - Entire Config (On Cycle)",
       "Total Number of PODs Requested - Exceptions",
       "Number of PODs EXC with Readings Provided for Entire Configuration",
       "Estimated Readings Provided - Exceptions",
       "Actual Readings Provided - Exceptions",
       "No Readings Provided at All (Exceptions)" >>

reportFileMonthsArray ==
    << <<"J","A","N">>, <<"F","E","B">>, <<"M","A","R">>, <<"A","P","R">>,
       <<"M","A","Y">>, <<"J","U","N">>, <<"J","U","L">>, <<"A","U","G">>,
       <<"S","E","P">>, <<"O","C","T">>, <<"N","O","V">>, <<"D","E","C">> >>

cyclesPerBillingMonth == 21

(* The number of rows of outputMatrix, line 154. *)
MatrixRows == 1300

(* datetime.date(1900, m, 1).strftime('%B'), lines 230-232 and 272. *)
MonthNames ==
    << "January", "February", "March", "April", "May", "June", "July",
       "August", "September", "October", "November", "December" >>

Missing == PyStr("Missing")

---------------------------------------------------------------------------
(* int(text) on a sequence of characters: surrounding whitespace is        *)
(* stripped, one sign is allowed, then decimal digits, with single         *)
(* underscores allowed between digits, and at most 4300 digits.  The       *)
(* result is [ok, n]; ok = FALSE is Python's ValueError.  A character is   *)
(* a one-character string; a character with no literal here is written by *)
(* its code point, "U+0664".                                               *)

(* The decimal digits (Unicode category Nd) int() accepts, one sequence    *)
(* per script, each from the digit zero to the digit nine.                 *)
DigitBlocks ==
    <<
       <<"0", "1", "2", "3", "4", "5", "6", "7", "8", "9">>,
       <<"U+0660", "U+0661", "U+0662", "U+0663", "U+0664", "U+0665", "U+0666", "U+0667", "U+0668", "U+0669">>,
       <<"U+06F0", "U+06F1", "U+06F2", "U+06F3", "U+06F4", "U+06F5", "U+06F6", "U+06F7", "U+06F8", "U+06F9">>,
       <<"U+07C0", "U+07C1", "U+07C2", "U+07C3", "U+07C4", "U+07C5", "U+07C6", "U+07C7", "U+07C8", "U+07C9">>,
       <<"U+0966", "U+0967", "U+0968", "U+0969", "U+096A", "U+096B", "U+096C", "U+096D", "U+096E", "U+096F">>,
       <<"U+09E6", "U+09E7", "U+09E8", "U+09E9", "U+09EA", "U+09EB", "U+09EC", "U+09ED", "U+09EE", "U+09EF">>,
       <<"U+0A66", "U+0A67", "U+0A68", "U+0A69", "U+0A6A", "U+0A6B", "U+0A6C", "U+0A6D", "U+0A6E", "U+0A6F">>,
       <<"U+0AE6", "U+0AE7", "U+0AE8", "U+0AE9", "U+0AEA", "U+0AEB", "U+0AEC", "U+0AED", "U+0AEE", "U+0AEF">>,
       <<"U+0B66", "U+0B67", "U+0B68", "U+0B69", "U+0B6A", "U+0B6B", "U+0B6C", "U+0B6D", "U+0B6E", "U+0B6F">>,
       <<"U+0BE6", "U+0BE7", "U+0BE8", "U+0BE9", "U+0BEA", "U+0BEB", "U+0BEC", "U+0BED", "U+0BEE", "U+0BEF">>,
       <<"U+0C66", "U+0C67", "U+0C68", "U+0C69", "U+0C6A", "U+0C6B", "U+0C6C", "U+0C6D", "U+0C6E", "U+0C6F">>,
       <<"U+0CE6", "U+0CE7", "U+0CE8", "U+0CE9", "U+0CEA", "U+0CEB", "U+0CEC", "U+0CED", "U+0CEE", "U+0CEF">>,
       <<"U+0D66", "U+0D67", "U+0D68", "U+0D69", "U+0D6A", "U+0D6B", "U+0D6C", "U+0D6D", "U+0D6E", "U+0D6F">>,
       <<"U+0DE6", "U+0DE7", "U+0DE8", "U+0DE9", "U+0DEA", "U+0DEB", "U+0DEC", "U+0DED", "U+0DEE", "U+0DEF">>,
       <<"U+0E50", "U+0E51", "U+0E52", "U+0E53", "U+0E54", "U+0E55", "U+0E56", "U+0E57", "U+0E58", "U+0E59">>,
       <<"U+0ED0", "U+0ED1", "U+0ED2", "U+0ED3", "U+0ED4", "U+0ED5", "U+0ED6", "U+0ED7", "U+0ED8", "U+0ED9">>,
       <<"U+0F20", "U+0F21", "U+0F22", "U+0F23", "U+0F24", "U+0F25", "U+0F26", "U+0F27", "U+0F28", "U+0F29">>,
       <<"U+1040", "U+1041", "U+1042", "U+1043", "U+1044", "U+1045", "U+1046", "U+1047", "U+1048", "U+1049">>,
       <<"U+1090", "U+1091", "U+1092", "U+1093", "U+1094", "U+1095", "U+1096", "U+1097", "U+1098", "U+1099">>,
       <<"U+17E0", "U+17E1", "U+17E2", "U+17E3", "U+17E4", "U+17E5", "U+17E6", "U+17E7", "U+17E8", "U+17E9">>,
       <<"U+1810", "U+1811", "U+1812", "U+1813", "U+1814", "U+1815", "U+1816", "U+1817", "U+1818", "U+1819">>,
       <<"U+1946", "U+1947", "U+1948", "U+1949", "U+194A", "U+194B", "U+194C", "U+194D", "U+194E", "U+194F">>,
       <<"U+19D0", "U+19D1", "U+19D2", "U+19D3", "U+19D4", "U+19D5", "U+19D6", "U+19D7", "U+19D8", "U+19D9">>,
       <<"U+1A80", "U+1A81", "U+1A82", "U+1A83", "U+1A84", "U+1A85", "U+1A86", "U+1A87", "U+1A88", "U+1A89">>,
       <<"U+1A90", "U+1A91", "U+1A92", "U+1A93", "U+1A94", "U+1A95", "U+1A96", "U+1A97", "U+1A98", "U+1A99">>,
       <<"U+1B50", "U+1B51", "U+1B52", "U+1B53", "U+1B54", "U+1B55", "U+1B56", "U+1B57", "U+1B58", "U+1B59">>,
       <<"U+1BB0", "U+1BB1", "U+1BB2", "U+1BB3", "U+1BB4", "U+1BB5", "U+1BB6", "U+1BB7", "U+1BB8", "U+1BB9">>,
       <<"U+1C40", "U+1C41", "U+1C42", "U+1C43", "U+1C44", "U+1C45", "U+1C46", "U+1C47", "U+1C48", "U+1C49">>,
       <<"U+1C50", "U+1C51", "U+1C52", "U+1C53", "U+1C54", "U+1C55", "U+1C56", "U+1C57", "U+1C58", "U+1C59">>,
       <<"U+A620", "U+A621", "U+A622", "U+A623", "U+A624", "U+A625", "U+A626", "U+A627", "U+A628", "U+A629">>,
       <<"U+A8D0", "U+A8D1", "U+A8D2", "U+A8D3", "U+A8D4", "U+A8D5", "U+A8D6", "U+A8D7", "U+A8D8", "U+A8D9">>,
       <<"U+A900", "U+A901", "U+A902", "U+A903", "U+A904", "U+A905", "U+A906", "U+A907", "U+A908", "U+A909">>,
       <<"U+A9D0", "U+A9D1", "U+A9D2", "U+A9D3", "U+A9D4", "U+A9D5", "U+A9D6", "U+A9D7", "U+A9D8", "U+A9D9">>,
       <<"U+A9F0", "U+A9F1", "U+A9F2", "U+A9F3", "U+A9F4", "U+A9F5", "U+A9F6", "U+A9F7", "U+A9F8", "U+A9F9">>,
       <<"U+AA50", "U+AA51", "U+AA52", "U+AA53", "U+AA54", "U+AA55", "U+AA56", "U+AA57", "U+AA58", "U+AA59">>,
       <<"U+ABF0", "U+ABF1", "U+ABF2", "U+ABF3", "U+ABF4", "U+ABF5", "U+ABF6", "U+ABF7", "U+ABF8", "U+ABF9">>,
       <<"U+FF10", "U+FF11", "U+FF12", "U+FF13", "U+FF14", "U+FF15", "U+FF16", "U+FF17", "U+FF18", "U+FF19">>,
       <<"U+104A0", "U+104A1", "U+104A2", "U+104A3", "U+104A4", "U+104A5", "U+104A6", "U+104A7", "U+104A8", "U+104A9">>,
       <<"U+10D30", "U+10D31", "U+10D32", "U+10D33", "U+10D34", "U+10D35", "U+10D36", "U+10D37", "U+10D38", "U+10D39">>,
       <<"U+11066", "U+11067", "U+11068", "U+11069", "U+1106A", "U+1106B", "U+1106C", "U+1106D", "U+1106E", "U+1106F">>,
       <<"U+110F0", "U+110F1", "U+110F2", "U+110F3", "U+110F4", "U+110F5", "U+110F6", "U+110F7", "U+110F8", "U+110F9">>,
       <<"U+11136", "U+11137", "U+11138", "U+11139", "U+1113A", "U+1113B", "U+1113C", "U+1113D", "U+1113E", "U+1113F">>,
       <<"U+111D0", "U+111D1", "U+111D2", "U+111D3", "U+111D4", "U+111D5", "U+111D6", "U+111D7", "U+111D8", "U+111D9">>,
       <<"U+112F0", "U+112F1", "U+112F2", "U+112F3", "U+112F4", "U+112F5", "U+112F6", "U+112F7", "U+112F8", "U+112F9">>,
       <<"U+11450", "U+11451", "U+11452", "U+11453", "U+11454", "U+11455", "U+11456", "U+11457", "U+11458", "U+11459">>,
       <<"U+114D0", "U+114D1", "U+114D2", "U+114D3", "U+114D4", "U+114D5", "U+114D6", "U+114D7", "U+114D8", "U+114D9">>,
       <<"U+11650", "U+11651", "U+11652", "U+11653", "U+11654", "U+11655", "U+11656", "U+11657", "U+11658", "U+11659">>,
       <<"U+116C0", "U+116C1", "U+116C2", "U+116C3", "U+116C4", "U+116C5", "U+116C6", "U+116C7", "U+116C8", "U+116C9">>,
       <<"U+11730", "U+11731", "U+11732", "U+11733", "U+11734", "U+11735", "U+11736", "U+11737", "U+11738", "U+11739">>,
       <<"U+118E0", "U+118E1", "U+118E2", "U+118E3", "U+118E4", "U+118E5", "U+118E6", "U+118E7", "U+118E8", "U+118E9">>,
       <<"U+11950", "U+11951", "U+11952", "U+11953", "U+11954", "U+11955", "U+11956", "U+11957", "U+11958", "U+11959">>,
       <<"U+11C50", "U+11C51", "U+11C52", "U+11C53", "U+11C54", "U+11C55", "U+11C56", "U+11C57", "U+11C58", "U+11C59">>,
       <<"U+11D50", "U+11D51", "U+11D52", "U+11D53", "U+11D54", "U+11D55", "U+11D56", "U+11D57", "U+11D58", "U+11D59">>,
       <<"U+11DA0", "U+11DA1", "U+11DA2", "U+11DA3", "U+11DA4", "U+11DA5", "U+11DA6", "U+11DA7", "U+11DA8", "U+11DA9">>,
       <<"U+16A60", "U+16A61", "U+16A62", "U+16A63", "U+16A64", "U+16A65", "U+16A66", "U+16A67", "U+16A68", "U+16A69">>,
       <<"U+16AC0", "U+16AC1", "U+16AC2", "U+16AC3", "U+16AC4", "U+16AC5", "U+16AC6", "U+16AC7", "U+16AC8", "U+16AC9">>,
       <<"U+16B50", "U+16B51", "U+16B52", "U+16B53", "U+16B54", "U+16B55", "U+16B56", "U+16B57", "U+16B58", "U+16B59">>,
       <<"U+1D7CE", "U+1D7CF", "U+1D7D0", "U+1D7D1", "U+1D7D2", "U+1D7D3", "U+1D7D4", "U+1D7D5", "U+1D7D6", "U+1D7D7">>,
       <<"U+1D7D8", "U+1D7D9", "U+1D7DA", "U+1D7DB", "U+1D7DC", "U+1D7DD", "U+1D7DE", "U+1D7DF", "U+1D7E0", "U+1D7E1">>,
       <<"U+1D7E2", "U+1D7E3", "U+1D7E4", "U+1D7E5", "U+1D7E6", "U+1D7E7", "U+1D7E8", "U+1D7E9", "U+1D7EA", "U+1D7EB">>,
       <<"U+1D7EC", "U+1D7ED", "U+1D7EE", "U+1D7EF", "U+1D7F0", "U+1D7F1", "U+1D7F2", "U+1D7F3", "U+1D7F4", "U+1D7F5">>,
       <<"U+1D7F6", "U+1D7F7", "U+1D7F8", "U+1D7F9", "U+1D7FA", "U+1D7FB", "U+1D7FC", "U+1D7FD", "U+1D7FE", "U+1D7FF">>,
       <<"U+1E140", "U+1E141", "U+1E142", "U+1E143", "U+1E144", "U+1E145", "U+1E146", "U+1E147", "U+1E148", "U+1E149">>,
       <<"U+1E2F0", "U+1E2F1", "U+1E2F2", "U+1E2F3", "U+1E2F4", "U+1E2F5", "U+1E2F6", "U+1E2F7", "U+1E2F8", "U+1E2F9">>,
       <<"U+1E950", "U+1E951", "U+1E952", "U+1E953", "U+1E954", "U+1E955", "U+1E956", "U+1E957", "U+1E958", "U+1E959">>,
       <<"U+1FBF0", "U+1FBF1", "U+1FBF2", "U+1FBF3", "U+1FBF4", "U+1FBF5", "U+1FBF6", "U+1FBF7", "U+1FBF8", "U+1FBF9">> >>

DigitChars ==
    {DigitBlocks[b][d] : b \in 1..Len(DigitBlocks), d \in 1..Len(DigitBlocks[1])}

IsDigit(c) == c \in DigitChars

DigitValueOf ==
    [c \in DigitChars |->
        (CHOOSE d \in 1..Len(DigitBlocks[1]) :
            \E b \in 1..Len(DigitBlocks) : DigitBlocks[b][d] = c) - 1]

DigitValue(c) == DigitValueOf[c]

(* The whitespace int() strips: the ASCII whitespace and the Unicode       *)
(* whitespace above U+007F.                                                *)
Whitespace ==
    {
        "\t", "\n", "U+000B", "\f", "\r", " ", "U+0085", "U+00A0", "U+1680",
        "U+2000", "U+2001", "U+2002", "U+2003", "U+2004", "U+2005", "U+2006",
        "U+2007", "U+2008", "U+2009", "U+200A", "U+2028", "U+2029", "U+202F",
        "U+205F", "U+3000" }

IsSpace(c) == c \in Whitespace

RECURSIVE LStrip(_)
LStrip(s) == IF s # <<>> /\ IsSpace(Head(s)) THEN LStrip(Tail(s)) ELSE s

RECURSIVE RStrip(_)
RStrip(s) ==
    IF s # <<>> /\ IsSpace(s[Len(s)]) THEN RStrip(SubSeq(s, 1, Len(s) - 1)) ELSE s

Strip(s) == RStrip(LStrip(s))

(* The digits of a literal, most significant first, folded into a number. *)
RECURSIVE DigitsValue(_, _)
DigitsValue(s, acc) ==
    IF s = <<>> THEN acc
    ELSE IF Head(s) = "_" THEN DigitsValue(Tail(s), acc)
    ELSE DigitsValue(Tail(s), acc * 10 + DigitValue(Head(s)))

WellFormedDigits(s) ==
    /\ s # <<>>
    /\ IsDigit(s[1])
    /\ IsDigit(s[Len(s)])
    /\ \A i \in 1..Len(s) : IsDigit(s[i]) \/ s[i] = "_"
    /\ \A i \in 1..(Len(s) - 1) : ~(s[i] = "_" /\ s[i + 1] = "_")

(* sys.get_int_max_str_digits(): int() raises ValueError on a literal of   *)
(* more digits (underscores, the sign and the whitespace are not counted). *)
MaxStrDigits == 4300

DigitCount(s) == Cardinality({i \in 1..Len(s) : IsDigit(s[i])})

int(text) ==
    LET s    == Strip(text)
        neg  == s # <<>> /\ Head(s) = "-"
        body == IF s # <<>> /\ Head(s) \in {"-", "+"} THEN Tail(s) ELSE s
    IN  IF DigitCount(body) <= MaxStrDigits /\ WellFormedDigits(body)
        THEN [ok |-> TRUE,
              n  |-> IF neg THEN 0 - DigitsValue(body, 0) ELSE DigitsValue(body, 0)]
        ELSE [ok |-> FALSE, n |-> 0]

(* reportFileMonthsArray.index(text): 0-based position, or ValueError. *)
MonthIndex(text) ==
    IF \E k \in 1..Len(reportFileMonthsArray) : reportFileMonthsArray[k] = text
    THEN [ok |-> TRUE,
          n  |-> (CHOOSE k \in 1..Len(reportFileMonthsArray) :
                      reportFileMonthsArray[k] = text) - 1]
    ELSE [ok |-> FALSE, n |-> 0]

---------------------------------------------------------------------------
(* Report lines and report files.                                          *)

Line(phrases, c39, c46, c49, c53, c73) ==
    [phrases |-> phrases, c39 |-> c39, c46 |-> c46, c49 |-> c49, c53 |-> c53,
     c73 |-> c73]

NoiseLine == Line({}, <<>>, <<>>, <<>>, <<>>, <<>>)

ReadCycleLine(cycle) == Line({"Read Cycle {"}, cycle, <<>>, <<>>, <<>>, <<>>)

ScheduleDatesLine(day, month, year) ==
    Line({"Schedule Dates"}, <<>>, day, month, year, <<>>)

AnchorLine(j, suffix) == Line({searchArray[j]}, <<>>, <<>>, <<>>, <<>>, suffix)

AnchorLines(js, suffix) == [k \in 1..Len(js) |-> AnchorLine(js[k], suffix)]

AllAnchors == <<1, 2, 3, 4, 5, 6, 7>>

Text42 == <<" ", "4", "2", "\n">>
Text42Arabic == <<" ", "U+0664", "U+0662", "\f", "\n">>
TextTooLong ==
    [i \in 1..(MaxStrDigits + 3) |->
        IF i = 1 THEN " " ELSE IF i = MaxStrDigits + 3 THEN "\n" ELSE "1"]
Text7  == <<"7", "\n">>
TextNA == <<"N", "/", "A", "\n">>

Jun05 == ScheduleDatesLine(<<"0","5">>, <<"J","U","N">>, <<"2","1">>)
Mar15 == ScheduleDatesLine(<<"1","5">>, <<"M","A","R">>, <<"2","1">>)
Mar25 == ScheduleDatesLine(<<"2","5">>, <<"M","A","R">>, <<"2","1">>)
Jan05 == ScheduleDatesLine(<<"0","5">>, <<"J","A","N">>, <<"2","1">>)
Jan15 == ScheduleDatesLine(<<"1","5">>, <<"J","A","N">>, <<"2","1">>)
Dec25 == ScheduleDatesLine(<<"2","5">>, <<"D","E","C">>, <<"2","1">>)
BadMonth15 == ScheduleDatesLine(<<"1","5">>, <<"X","X","X">>, <<"2","1">>)

(* A file of the reports folder: its lines, or a file that open() or       *)
(* readlines() fails on (a directory, bytes that do not decode).           *)
Report(lines) == [readable |-> TRUE, lines |-> lines]

UnreadableFile == [readable |-> FALSE, lines |-> <<>>]

(* The report files a run may find in the reports folder. *)
FileJun05Cycle15 ==
    Report(<<NoiseLine, ReadCycleLine(<<"1","5">>), Jun05>> \o AnchorLines(AllAnchors, Text42))

FileJun05Cycle15Partial ==
    Report(<<ReadCycleLine(<<"1","5">>), Jun05>> \o AnchorLines(<<1, 2, 3, 4, 5, 6>>, Text7))

FileNoSchedule ==
    Report(<<ReadCycleLine(<<"0","5">>)>> \o AnchorLines(AllAnchors, Text7))

FileNoReadCycle ==
    Report(<<Mar15>> \o AnchorLines(AllAnchors, Text7))

FileReadCycleUnparsed ==
    Report(<<ReadCycleLine(<<" "," ">>), Mar15>> \o AnchorLines(AllAnchors, Text42))

FileScheduleUnparsed ==
    Report(<<ReadCycleLine(<<"0","9">>), BadMonth15>> \o AnchorLines(AllAnchors, Text42))

FileNegativeCycle ==
    Report(<<ReadCycleLine(<<"-","5">>), Mar15>> \o AnchorLines(AllAnchors, Text42))

FileJan15NegativeCycle ==
    Report(<<ReadCycleLine(<<"-","5">>), Jan15>> \o AnchorLines(AllAnchors, Text42))

FileDec25Cycle05 ==
    Report(<<ReadCycleLine(<<"0","5">>), Dec25>> \o AnchorLines(AllAnchors, Text42))

FileJan05Cycle15 ==
    Report(<<ReadCycleLine(<<"1","5">>), Jan05>> \o AnchorLines(AllAnchors, Text42))

FileMar25Cycle05 ==
    Report(<<ReadCycleLine(<<"0","5">>), Mar25>> \o AnchorLines(AllAnchors, Text42Arabic))

FileFieldNotNumeric ==
    Report(<<ReadCycleLine(<<"0","9">>), Mar15, AnchorLine(1, TextNA)>>
        \o AnchorLines(<<2, 3>>, Text42))

FileFieldTooLong ==
    Report(<<ReadCycleLine(<<"0","9">>), Mar15, AnchorLine(1, TextTooLong)>>
        \o AnchorLines(<<2, 3, 4, 5, 6, 7>>, Text42))

FileRepeatedAnchor ==
    Report(<<ReadCycleLine(<<"0","9">>), Mar15, AnchorLine(1, TextNA), AnchorLine(1, Text42),
      AnchorLine(2, Text42), NoiseLine, AnchorLine(2, Text7)>>)

FileCycle25 ==
    Report(<<ReadCycleLine(<<"2","5">>), Mar15>> \o AnchorLines(AllAnchors, Text42))

Files ==
    { FileJun05Cycle15, FileJun05Cycle15Partial, FileNoSchedule, FileNoReadCycle,
      FileReadCycleUnparsed, FileScheduleUnparsed, FileNegativeCycle,
      FileJan15NegativeCycle, FileDec25Cycle05, FileJan05Cycle15, FileMar25Cycle05,
      FileFieldNotNumeric, FileFieldTooLong, FileRepeatedAnchor, FileCycle25,
      UnreadableFile }

(* The largest number of report files in the folder. *)
MaxFiles == 2

---------------------------------------------------------------------------
(* The module's global names: a name is unbound until first assigned, and  *)
(* it keeps its value from one file of the loop to the next.               *)

Bound(e, name) == name \in DOMAIN e

Bind(e, name, value) ==
    [x \in (DOMAIN e) \cup {name} |-> IF x = name THEN value ELSE e[x]]

(* Lines 178-186: the read cycle of a line holding "Read Cycle {". *)
ParseReadCycle(e, line) ==
    IF "Read Cycle {" \in line.phrases
    THEN LET r == int(line.c39)
         IN  IF r.ok THEN Bind(e, "readCycle", r.n) ELSE Bind(e, "readCycle", 0)
    ELSE e

(* Lines 188-199: day, month and year of a line holding "Schedule Dates";  *)
(* any failure sets day and month to 0 and leaves the year as it was.      *)
ParseScheduleDates(e, line) ==
    IF "Schedule Dates" \in line.phrases
    THEN LET d == int(line.c46)
             m == MonthIndex(line.c49)
             y == int(line.c53)
         IN  IF d.ok /\ m.ok /\ y.ok
             THEN Bind(Bind(Bind(e, "reportFileDay", d.n),
                            "reportFileMonth", m.n + 1),
                       "reportFileYear", 2000 + y.n)
             ELSE Bind(Bind(e, "reportFileDay", 0), "reportFileMonth", 0)
    ELSE e

(* A variant of MatchAnchors that keeps the first line found for a phrase. *)
MatchAnchorsKeepFirst(results, line) ==
    [j \in 1..Len(searchArray) |->
        IF searchArray[j] \in line.phrases /\ results[j] = PyStr("Missing")
        THEN line ELSE results[j]]

(* Lines 201-204: every phrase of searchArray found in the line takes the  *)
(* line.                                                                   *)
MatchAnchors(results, line) ==
    [j \in 1..Len(searchArray) |->
        IF searchArray[j] \in line.phrases THEN line ELSE results[j]]

(* Lines 170-204: the scan of one file's lines, first to last. *)
RECURSIVE SearchLines(_, _, _)
SearchLines(e, results, lines) ==
    IF lines = <<>> THEN [env |-> e, resultsArray |-> results]
    ELSE SearchLines(ParseScheduleDates(ParseReadCycle(e, Head(lines)), Head(lines)),
                     MatchAnchors(results, Head(lines)),
                     Tail(lines))

(* Lines 171-173. *)
EmptyResults == [j \in 1..Len(searchArray) |-> Missing]

(* The warnings of lines 183-185 and 195-197, in the order printed. *)
LineWarnings(line) ==
    (IF "Read Cycle {" \in line.phrases /\ ~int(line.c39).ok
     THEN <<"no read cycle">> ELSE <<>>)
    \o
    (IF /\ "Schedule Dates" \in line.phrases
        /\ ~(int(line.c46).ok /\ MonthIndex(line.c49).ok /\ int(line.c53).ok)
     THEN <<"no schedule date">> ELSE <<>>)

RECURSIVE SearchWarnings(_)
SearchWarnings(lines) ==
    IF lines = <<>> THEN <<>>
    ELSE LineWarnings(Head(lines)) \o SearchWarnings(Tail(lines))

Message(msg, file, args) == [msg |-> msg, file |-> file, args |-> args]

---------------------------------------------------------------------------
(* Lines 208-217: every entry that is not "Missing" becomes                *)
(* int(entry[73:]); the first entry that is not a number ends the run.     *)

Unparsed(results) ==
    {j \in 1..Len(results) : results[j] # Missing /\ ~int(results[j].c73).ok}

Minimum(S) == CHOOSE x \in S : \A y \in S : x <= y

Maximum(S) == CHOOSE x \in S : \A y \in S : x >= y

(* A variant of ConvertResults that reports a line without a number as     *)
(* "Missing" and lets the run go on.                                       *)
ConvertResultsLenient(results) ==
    [ok |-> TRUE,
     resultsArray |->
        [j \in 1..Len(results) |->
            IF results[j] = Missing THEN Missing
            ELSE IF int(results[j].c73).ok THEN PyInt(int(results[j].c73).n)
            ELSE Missing]]

ConvertResults(results) ==
    LET bad   == Unparsed(results)
        upto  == IF bad = {} THEN Len(results) ELSE Minimum(bad) - 1
    IN  [ok |-> bad = {},
         resultsArray |->
            [j \in 1..Len(results) |->
                IF j <= upto /\ results[j] # Missing
                THEN PyInt(int(results[j].c73).n)
                ELSE results[j]]]

---------------------------------------------------------------------------
(* Lines 220-226: the billing month of a schedule date and a read cycle.   *)

BillingMonth(reportFileDay, reportFileMonth, readCycle) ==
    IF reportFileDay < 10 /\ readCycle > 10 THEN reportFileMonth - 1
    ELSE IF reportFileDay > cyclesPerBillingMonth - 1 /\ readCycle < 10
         THEN reportFileMonth + 1
    ELSE reportFileMonth

(* Line 154-157: the empty matrix, rows 100..1299 labelled with a month. *)
EmptyMatrix ==
    [row \in 0..(MatrixRows - 1) |->
        [column \in 0..(Len(searchArray) + 2) |->
            IF column = 0 /\ row \in 100..1299 THEN PyInt(row \div 100)
            ELSE PyStr("")]]

(* The row a Python list index names: a negative index counts from the end. *)
RowIndex(index) == IF index < 0 THEN index + MatrixRows ELSE index

FlagColumn == Len(searchArray) + 2

(* A variant of PutResults that keeps a column's value when the file has   *)
(* "Missing" for it.                                                       *)
PutResultsKeepingFound(matrix, index, results) ==
    [matrix EXCEPT ![RowIndex(index)] =
        [column \in DOMAIN @ |->
            IF column \in 1..Len(results) /\ results[column] # Missing
            THEN results[column]
            ELSE IF column = Len(results) + 2 THEN PyInt(1)
            ELSE @[column]]]

(* Lines 238-241: the file's results and the data flag go into one row. *)
PutResults(matrix, index, results) ==
    [matrix EXCEPT ![RowIndex(index)] =
        [column \in DOMAIN @ |->
            IF column \in 1..Len(results) THEN results[column]
            ELSE IF column = Len(results) + 2 THEN PyInt(1)
            ELSE @[column]]]

(* Lines 220-241 for one file: what the merge does with the names bound    *)
(* by the scan.  kind is "NameError" or "ValueError" or "IndexError" (the  *)
(* exception that ends the run), "skipped" (reportFileDay > 0 is false) or *)
(* "stored".                                                               *)
MergeResults(e, results, matrix) ==
    IF ~Bound(e, "reportFileDay")
    THEN [kind |-> "NameError", env |-> e, matrix |-> matrix]
    ELSE IF ~(e["reportFileDay"] > 0)
    THEN [kind |-> "skipped", env |-> e, matrix |-> matrix]
    ELSE IF /\ ~Bound(e, "readCycle")
            /\ \/ e["reportFileDay"] < 10
               \/ e["reportFileDay"] > cyclesPerBillingMonth - 1
    THEN [kind |-> "NameError", env |-> e, matrix |-> matrix]
    ELSE
      LET cycle == IF Bound(e, "readCycle") THEN e["readCycle"] ELSE 0
          month == BillingMonth(e["reportFileDay"], e["reportFileMonth"], cycle)
          e2    == Bind(e, "billingMonth", month)
          index == month * 100 + cycle
      IN  IF e["reportFileMonth"] \notin 1..12
          THEN [kind |-> "ValueError", env |-> e2, matrix |-> matrix]
          ELSE IF ~Bound(e, "reportFileYear") \/ ~Bound(e, "readCycle")
          THEN [kind |-> "NameError", env |-> e2, matrix |-> matrix]
          ELSE IF month \notin 1..12
          THEN [kind |-> "ValueError", env |-> e2, matrix |-> matrix]
          ELSE IF index \notin (0 - MatrixRows)..(MatrixRows - 1)
          THEN [kind |-> "IndexError", env |-> e2, matrix |-> matrix]
          ELSE [kind |-> "stored", env |-> e2,
                matrix |-> PutResults(matrix, index, results)]

---------------------------------------------------------------------------
(* Lines 243-248: the month labels of the flagged rows, in row order, each *)
(* once.                                                                   *)

FlaggedRows(matrix) == {row \in DOMAIN matrix : matrix[row][FlagColumn] = PyInt(1)}

RECURSIVE AppendMonths(_, _, _)
AppendMonths(matrix, rows, months) ==
    IF rows = {} THEN months
    ELSE LET row   == Minimum(rows)
             label == matrix[row][0]
         IN  AppendMonths(matrix, rows \ {row},
                          IF \E k \in 1..Len(months) : months[k] = label
                          THEN months ELSE Append(months, label))

OutputMonths(matrix) == AppendMonths(matrix, FlaggedRows(matrix), <<>>)

(* Lines 262-283: the rows written for one month. *)
CycleRow(matrix, month, cycle) ==
    IF matrix[month * 100 + cycle][FlagColumn] = PyInt(1)
    THEN [column \in 1..(Len(searchArray) + 1) |->
             IF column = 1 THEN PyInt(cycle)
             ELSE matrix[month * 100 + cycle][column - 1]]
    ELSE <<PyInt(cycle)>> \o [column \in 1..Len(searchArray) |-> PyStr("")]

(* The rows of one month section: title, headings, the cycles, blank. *)
SectionLength == cyclesPerBillingMonth + 3

(* A variant of MonthSection whose cycles run from 0. *)
MonthSectionFromCycleZero(matrix, month) ==
    << <<PyStr(MonthNames[month])>>,
       [column \in 1..Len(csvHeadingArray) |-> PyStr(csvHeadingArray[column])] >>
    \o [cycle \in 1..cyclesPerBillingMonth |-> CycleRow(matrix, month, cycle - 1)]
    \o << <<PyStr("")>> >>

MonthSection(matrix, month) ==
    << <<PyStr(MonthNames[month])>>,
       [column \in 1..Len(csvHeadingArray) |-> PyStr(csvHeadingArray[column])] >>
    \o [cycle \in 1..cyclesPerBillingMonth |-> CycleRow(matrix, month, cycle)]
    \o << <<PyStr("")>> >>

(* Lines 251-286: the sections of the months in turn; a month label that   *)
(* is not a number (the "" of rows 0..99) raises TypeError at line 265,    *)
(* and the rows written so far stay in the file.                           *)
RECURSIVE WriteMonths(_, _, _)
WriteMonths(matrix, months, rows) ==
    IF months = <<>> THEN [ok |-> TRUE, rows |-> rows]
    ELSE IF ~IsInt(Head(months)) THEN [ok |-> FALSE, rows |-> rows]
    ELSE WriteMonths(matrix, Tail(months),
                     rows \o MonthSection(matrix, Head(months).n))

---------------------------------------------------------------------------
(* The run.  pc is the script's position: "reports" (line 144), "search"   *)
(* (line 162), "convert" (line 209), "merge" (line 220), "months" (line    *)
(* 244), "csv" (line 251), "done" (the prompt of line 298), "finished"     *)
(* (line 316), "exited" (sys.exit) and "crashed" (an exception nothing     *)
(* catches).  reportsFolder is the files of the reports folder that "*.*"  *)
(* matches, fileArray the script's variable of that name, fileIndex the    *)
(* position in fileArray of the file the loop of line 160 is at.           *)
(* csvOutputFile is output.csv: whether the run created it, and its rows.  *)

FileArrays == UNION {[1..n -> Files] : n \in 0..MaxFiles}

Init ==
    /\ reportsFolder \in FileArrays
    /\ fileArray = reportsFolder
    /\ pc = "reports"
    /\ fileIndex = 1
    /\ env = <<>>
    /\ resultsArray = <<>>
    /\ outputMatrix = EmptyMatrix
    /\ outputMonthsArray = <<>>
    /\ csvOutputFile = [created |-> FALSE, rows |-> <<>>]
    /\ console = <<>>

(* Lines 144-151, no file in the folder. *)
NoReportsFound ==
    /\ pc = "reports"
    /\ Len(fileArray) = 0
    /\ pc' = "exited"
    /\ console' = Append(console, Message("No reports found", 0, <<>>))
    /\ UNCHANGED <<reportsFolder, fileArray, fileIndex, env, resultsArray, outputMatrix,
                   outputMonthsArray, csvOutputFile>>

(* Lines 144-157, some files in the folder. *)
ReportsFound ==
    /\ pc = "reports"
    /\ Len(fileArray) > 0
    /\ pc' = "search"
    /\ console' = Append(console, Message("reports found", Len(fileArray), <<>>))
    /\ UNCHANGED <<reportsFolder, fileArray, fileIndex, env, resultsArray, outputMatrix,
                   outputMonthsArray, csvOutputFile>>

(* Lines 162-206: the file at fileIndex is read and scanned; a file that  *)
(* cannot be read ends the run at line 168.                                *)
SearchFile ==
    /\ pc = "search"
    /\ IF fileArray[fileIndex].readable
       THEN LET lines == fileArray[fileIndex].lines
                found == SearchLines(env, EmptyResults, lines)
                warns == SearchWarnings(lines)
            IN  /\ env' = found.env
                /\ resultsArray' = found.resultsArray
                /\ console' = console \o
                       [k \in 1..Len(warns) |-> Message(warns[k], fileIndex, <<>>)]
                /\ pc' = "convert"
       ELSE /\ pc' = "exited"
            /\ console' = Append(console, Message("Unable to open", fileIndex, <<>>))
            /\ UNCHANGED <<env, resultsArray>>
    /\ UNCHANGED <<reportsFolder, fileArray, fileIndex, outputMatrix,
                   outputMonthsArray, csvOutputFile>>

(* Lines 208-217: the matched lines become numbers, or the run ends. *)
ConvertFields ==
    /\ pc = "convert"
    /\ LET converted == ConvertResults(resultsArray)
       IN  /\ resultsArray' = converted.resultsArray
           /\ IF converted.ok
              THEN pc' = "merge" /\ console' = console
              ELSE /\ pc' = "exited"
                   /\ console' = Append(console, Message("Invalid data", fileIndex, <<>>))
    /\ UNCHANGED <<reportsFolder, fileArray, fileIndex, env, outputMatrix, outputMonthsArray,
                   csvOutputFile>>

(* Lines 219-241, then the loop of line 160 moves to the next file. *)
MergeFile ==
    /\ pc = "merge"
    /\ LET merged == MergeResults(env, resultsArray, outputMatrix)
       IN  /\ env' = merged.env
           /\ outputMatrix' = merged.matrix
           /\ console' =
                 IF merged.kind = "stored"
                 THEN Append(console,
                        Message("Data found", fileIndex,
                                <<env["reportFileMonth"], env["reportFileDay"],
                                  env["reportFileYear"], env["readCycle"],
                                  merged.env["billingMonth"]>>))
                 ELSE IF merged.kind = "skipped" THEN console
                 ELSE Append(console, Message(merged.kind, fileIndex, <<>>))
           /\ IF merged.kind \in {"stored", "skipped"}
              THEN /\ fileIndex' = fileIndex + 1
                   /\ pc' = IF fileIndex < Len(fileArray) THEN "search" ELSE "months"
              ELSE /\ fileIndex' = fileIndex
                   /\ pc' = "crashed"
    /\ UNCHANGED <<reportsFolder, fileArray, resultsArray, outputMonthsArray, csvOutputFile>>

(* Lines 243-248. *)
ScanMonths ==
    /\ pc = "months"
    /\ outputMonthsArray' = OutputMonths(outputMatrix)
    /\ pc' = "csv"
    /\ UNCHANGED <<reportsFolder, fileArray, fileIndex, env, resultsArray, outputMatrix,
                   csvOutputFile, console>>

(* Lines 250-297: output.csv is opened and the month sections written,    *)
(* then choice is bound to "" for the prompt.  The bare except of line 284 *)
(* catches whatever the try raises: open() (failAt = 0: no file is         *)
(* created), a write or the flush at close (failAt = k: row k is the first *)
(* that does not reach the file whole; rows holds the whole rows before    *)
(* it), or the TypeError of a month label that is not a number.  failAt    *)
(* past the last row: every write succeeds.                                *)
BuildCsv ==
    /\ pc = "csv"
    /\ \E written \in {WriteMonths(outputMatrix, outputMonthsArray, <<>>)} :
           \E failAt \in 0..(Len(written.rows) + 1) :
              IF failAt = 0
              THEN /\ pc' = "exited"
                   /\ console' = Append(console,
                                        Message("Unable to open or create", 0, <<>>))
                   /\ UNCHANGED <<csvOutputFile, env>>
              ELSE IF failAt <= Len(written.rows)
              THEN /\ csvOutputFile' =
                         [created |-> TRUE,
                          rows    |-> SubSeq(written.rows, 1, failAt - 1)]
                   /\ pc' = "exited"
                   /\ console' = Append(console,
                                        Message("Unable to open or create", 0, <<>>))
                   /\ env' = env
              ELSE /\ csvOutputFile' = [created |-> TRUE, rows |-> written.rows]
                   /\ IF written.ok
                      THEN /\ pc' = "done"
                           /\ console' = Append(console,
                                             Message("created successfully", 0, <<>>))
                           /\ env' = Bind(env, "choice", PyStr(""))
                      ELSE /\ pc' = "exited"
                           /\ console' = Append(console,
                                             Message("Unable to open or create", 0, <<>>))
                           /\ env' = env
    /\ UNCHANGED <<reportsFolder, fileArray, fileIndex, resultsArray, outputMatrix,
                   outputMonthsArray>>

(* Lines 81-82. *)
negativeAnswers == <<"n", "no">>
positiveAnswers == <<"y", "yes">>

(* The lines typed at the prompt of line 301, lower-cased. *)
Answers == {"y", "yes", "n", "no", "", "maybe"}

Elements(seq) == {seq[k] : k \in 1..Len(seq)}

(* The elements of a sequence at the positions of a set, in order. *)
RECURSIVE SelectPositions(_, _)
SelectPositions(seq, keep) ==
    IF keep = {} THEN <<>>
    ELSE Append(SelectPositions(seq, keep \ {Maximum(keep)}), seq[Maximum(keep)])

(* Lines 298-316: one turn of the loop of line 298.  On "y" or "yes"       *)
(* fileArray is bound to the files of the folder whose names match         *)
(* "*txt.*", which are some of the files "*.*" matched at line 141 (names  *)
(* are not modelled, so any of them), and they are removed in turn; an     *)
(* os.remove that raises (OSError: the file cannot be removed) ends the    *)
(* run with the files before it removed.  Any answer outside the two       *)
(* lists asks again.  input() at the end of the input raises EOFError,     *)
(* which nothing catches.                                                  *)
AnswerPrompt ==
    /\ pc = "done"
    /\ \/ \E choice \in Answers :
             /\ env' = Bind(env, "choice", PyStr(choice))
             /\ IF choice \in Elements(positiveAnswers)
                THEN \E matching \in SUBSET (1..Len(reportsFolder)) :
                     \E removed \in {r \in SUBSET matching :
                                        \A a \in r, b \in matching \ r : a < b} :
                         /\ fileArray' = SelectPositions(reportsFolder, matching)
                         /\ reportsFolder' =
                               SelectPositions(reportsFolder,
                                               (1..Len(reportsFolder)) \ removed)
                         /\ IF removed = matching
                            THEN /\ console' = Append(console,
                                        Message("folder cleared out", 0, <<>>))
                                 /\ pc' = "finished"
                            ELSE /\ console' = Append(console,
                                        Message("OSError", 0, <<>>))
                                 /\ pc' = "crashed"
                ELSE IF choice \in Elements(negativeAnswers)
                THEN /\ console' = Append(console,
                                          Message("folder not emptied", 0, <<>>))
                     /\ pc' = "finished"
                     /\ UNCHANGED <<reportsFolder, fileArray>>
                ELSE UNCHANGED <<reportsFolder, fileArray, console, pc>>
       \/ /\ pc' = "crashed"
          /\ console' = Append(console, Message("EOFError", 0, <<>>))
          /\ UNCHANGED <<reportsFolder, fileArray, env>>
    /\ UNCHANGED <<fileIndex, resultsArray, outputMatrix, outputMonthsArray,
                   csvOutputFile>>

Next ==
    \/ NoReportsFound
    \/ ReportsFound
    \/ SearchFile
    \/ ConvertFields
    \/ MergeFile
    \/ ScanMonths
    \/ BuildCsv
    \/ AnswerPrompt

Spec == Init /\ [][Next]_vars

(* Lines 159-248 as one function of the files in the order processed: the  *)
(* position the loop ends at and the matrix it leaves.                     *)
RECURSIVE RunFiles(_, _, _)
RunFiles(files, e, matrix) ==
    IF files = <<>> THEN [pc |-> "months", matrix |-> matrix]
    ELSE IF ~Head(files).readable THEN [pc |-> "exited", matrix |-> matrix]
    ELSE LET found     == SearchLines(e, EmptyResults, Head(files).lines)
             converted == ConvertResults(found.resultsArray)
             merged    == MergeResults(found.env, converted.resultsArray, matrix)
         IN  IF ~converted.ok THEN [pc |-> "exited", matrix |-> matrix]
             ELSE IF merged.kind \in {"stored", "skipped"}
             THEN RunFiles(Tail(files), merged.env, merged.matrix)
             ELSE [pc |-> "crashed", matrix |-> merged.matrix]

(* The months of outputMonthsArray up to the first label that is not a     *)
(* number.                                                                 *)
RECURSIVE WrittenMonths(_)
WrittenMonths(months) ==
    IF months = <<>> \/ ~IsInt(Head(months)) THEN <<>>
    ELSE <<Head(months).n>> \o WrittenMonths(Tail(months))

(* failAt of BuildCsv when no write fails, whatever the months. *)
NoWriteFails == Len(MonthNames) * SectionLength + 1

(* The months with a section, whole or cut short, in the output.csv of a   *)
(* run over the files whose output fails at failAt (as in BuildCsv).       *)
EmittedMonths(files, failAt) ==
    LET run    == RunFiles(files, <<>>, EmptyMatrix)
        months == WrittenMonths(OutputMonths(run.matrix))
        rows   == IF failAt = 0 THEN 0
                  ELSE Minimum({failAt - 1, Len(months) * SectionLength})
    IN  IF files # <<>> /\ run.pc = "months"
        THEN SubSeq(months, 1, (rows + SectionLength - 1) \div SectionLength)
        ELSE <<>>

---------------------------------------------------------------------------
(* What the claims speak of, stated from a file's lines alone.             *)

(* The lines of the k-th file of the run; fileArray holds the files of the *)
(* run until line 304 binds it to the files to remove.                     *)
FileLines(k) == fileArray[k].lines

CleanupStarted ==
    /\ console # <<>>
    /\ console[Len(console)].msg \in {"folder cleared out", "OSError"}

LinesWith(lines, phrase) == {k \in 1..Len(lines) : phrase \in lines[k].phrases}

HasLine(lines, phrase) == LinesWith(lines, phrase) # {}

FirstLineWith(lines, phrase) == lines[Minimum(LinesWith(lines, phrase))]

LastLineWith(lines, phrase) == lines[Maximum(LinesWith(lines, phrase))]

(* The files stored so far: the "Data found" messages, in order. *)
StoredMessages == {k \in 1..Len(console) : console[k].msg = "Data found"}

MsgMonth(k)        == console[k].args[1]
MsgDay(k)          == console[k].args[2]
MsgCycle(k)        == console[k].args[4]
MsgBillingMonth(k) == console[k].args[5]
MsgRow(k)          == MsgBillingMonth(k) * 100 + MsgCycle(k)

---------------------------------------------------------------------------
(* C1: a file with no "Schedule Dates" line leaves every cell of the       *)
(* matrix as it was and the run goes on to the next file (or to the CSV    *)
(* step), whatever was processed before it.                                *)
C1_NoScheduleLineContributesNothing ==
    [][(pc = "merge" /\ ~HasLine(FileLines(fileIndex), "Schedule Dates"))
          => (outputMatrix' = outputMatrix /\ pc' \in {"search", "months"})]_vars

---------------------------------------------------------------------------
(* C2: every stored file has its own schedule day, schedule month and read *)
(* cycle (those of its "Schedule Dates" and "Read Cycle {" lines; the      *)
(* cycle is 0 when the read cycle does not parse), and the billing month   *)
(* reported for it is scheduleMonth - 1 if scheduleDay < 10 and            *)
(* readCycle > 10, otherwise scheduleMonth + 1 if                          *)
(* scheduleDay > cyclesPerBillingMonth - 1 and readCycle < 10, otherwise   *)
(* scheduleMonth, of those values alone; the row flagged for it is         *)
(* billingMonth * 100 + readCycle; and the file of day 5, month 6, cycle   *)
(* 15 is stored in row 515 with billing month 5.                           *)
C2_BillingMonthOfOwnValues ==
    ~CleanupStarted => \A k \in StoredMessages :
        LET lines == FileLines(console[k].file)
        IN  /\ HasLine(lines, "Schedule Dates")
            /\ HasLine(lines, "Read Cycle {")
            /\ LET cycle == int(LastLineWith(lines, "Read Cycle {").c39)
                   d == int(LastLineWith(lines, "Schedule Dates").c46).n
                   m == MonthIndex(LastLineWith(lines, "Schedule Dates").c49).n + 1
                   c == IF cycle.ok THEN cycle.n ELSE 0
                   b == CASE d < 10 /\ c > 10 -> m - 1
                          [] ~(d < 10 /\ c > 10)
                             /\ d > cyclesPerBillingMonth - 1 /\ c < 10 -> m + 1
                          [] OTHER -> m
               IN  /\ MsgBillingMonth(k) = b
                   /\ outputMatrix[RowIndex(b * 100 + c)][FlagColumn] = PyInt(1)
                   /\ (d = 5 /\ m = 6 /\ c = 15)
                         => MsgBillingMonth(k) = 5 /\ MsgRow(k) = 515

---------------------------------------------------------------------------
(* C3 as stated: after the scan of a file, each anchor phrase holds the    *)
(* first line of the file that contains it, and "Missing" when none does.  *)
C3_FirstMatchingLineSelected ==
    pc = "convert" =>
        \A j \in 1..Len(searchArray) :
            resultsArray[j] =
                IF HasLine(FileLines(fileIndex), searchArray[j])
                THEN FirstLineWith(FileLines(fileIndex), searchArray[j])
                ELSE Missing

(* C3 amended: each anchor phrase holds the last line of the file that     *)
(* contains it, the value extracted for the column is the number of that   *)
(* line, and the phrase no line contains yields "Missing".                 *)
C3_LastMatchingLineSelected ==
    /\ pc = "convert" =>
          \A j \in 1..Len(searchArray) :
              resultsArray[j] =
                  IF HasLine(FileLines(fileIndex), searchArray[j])
                  THEN LastLineWith(FileLines(fileIndex), searchArray[j])
                  ELSE Missing
    /\ pc = "merge" =>
          \A j \in 1..Len(searchArray) :
              resultsArray[j] =
                  IF HasLine(FileLines(fileIndex), searchArray[j])
                  THEN PyInt(int(LastLineWith(FileLines(fileIndex), searchArray[j]).c73).n)
                  ELSE Missing

C3_Witness ==
    /\ pc = "merge"
    /\ \E j \in 1..Len(searchArray) :
          LET lines == FileLines(fileIndex)
          IN  /\ Cardinality(LinesWith(lines, searchArray[j])) > 1
              /\ int(FirstLineWith(lines, searchArray[j]).c73).ok
              /\ int(FirstLineWith(lines, searchArray[j]).c73).n = 42
              /\ resultsArray[j] = PyInt(7)
    /\ \E j \in 1..Len(searchArray) :
          ~HasLine(FileLines(fileIndex), searchArray[j]) /\ resultsArray[j] = Missing

---------------------------------------------------------------------------
(* A file k of the run stops the run: no step of the run goes past the     *)
(* conversion of file k, and output.csv is not created.                    *)
RunStopsAt(k) ==
    /\ fileIndex <= k
    /\ fileIndex = k => pc \in {"reports", "search", "convert", "exited"}
    /\ pc \notin {"months", "csv", "done", "finished"}
    /\ ~csvOutputFile.created

UnparsedAnchorLine(lines) ==
    \E k \in 1..Len(lines), j \in 1..Len(searchArray) :
        searchArray[j] \in lines[k].phrases /\ ~int(lines[k].c73).ok

UnparsedSelectedLine(lines) ==
    \E j \in 1..Len(searchArray) :
        /\ HasLine(lines, searchArray[j])
        /\ ~int(LastLineWith(lines, searchArray[j]).c73).ok

(* C4 as stated: a file with any line that contains an anchor phrase and   *)
(* has no integer after the label stops the run: no later file is          *)
(* processed and output.csv is not written.                                *)
C4_AnyUnparsedAnchorLineHalts ==
    ~CleanupStarted => \A k \in 1..Len(fileArray) :
        UnparsedAnchorLine(FileLines(k)) => RunStopsAt(k)

(* C4 amended: a file stops the run when the line selected for an anchor   *)
(* phrase (the last line of the file that contains it) has no integer      *)
(* after the label: no later file is processed, output.csv is not written, *)
(* however many files were stored before it.                               *)
C4_UnparsedSelectedLineHalts ==
    ~CleanupStarted => \A k \in 1..Len(fileArray) :
        UnparsedSelectedLine(FileLines(k)) => RunStopsAt(k)

C4_Witness ==
    /\ pc = "exited"
    /\ fileIndex = 2
    /\ Len(fileArray) >= 2
    /\ UnparsedSelectedLine(FileLines(2))
    /\ \E k \in StoredMessages : console[k].file = 1
    /\ FlaggedRows(outputMatrix) # {}
    /\ console[Len(console)].msg = "Invalid data"
    /\ ~csvOutputFile.created

---------------------------------------------------------------------------
UnparsedReadCycleLine(lines) ==
    \E k \in 1..Len(lines) :
        "Read Cycle {" \in lines[k].phrases /\ ~int(lines[k].c39).ok

UnparsedScheduleLine(lines) ==
    \E k \in 1..Len(lines) :
        /\ "Schedule Dates" \in lines[k].phrases
        /\ ~(int(lines[k].c46).ok /\ MonthIndex(lines[k].c49).ok /\ int(lines[k].c53).ok)

(* C5: a file whose "Read Cycle {" line or "Schedule Dates" line fails to  *)
(* parse is skipped by the merge: every cell of the matrix stays as it     *)
(* was, the run is not aborted and goes on to the next file.               *)
C5_UnparsedMetadataSkipsFile ==
    [][(/\ pc = "merge"
        /\ \/ UnparsedReadCycleLine(FileLines(fileIndex))
           \/ UnparsedScheduleLine(FileLines(fileIndex)))
          => (outputMatrix' = outputMatrix /\ pc' \in {"search", "months"})]_vars

---------------------------------------------------------------------------
(* The values a file gives the seven columns. *)
FileFields(lines) ==
    [j \in 1..Len(searchArray) |->
        IF HasLine(lines, searchArray[j])
        THEN PyInt(int(LastLineWith(lines, searchArray[j]).c73).n)
        ELSE Missing]

StoredInRow(row) == {k \in StoredMessages : RowIndex(MsgRow(k)) = row}

(* C6: every row that files were stored in holds, in each of the seven     *)
(* columns, the value of the last file stored in it ("Missing" included),  *)
(* and keeps its data flag.                                                *)
C6_LastWriteWins ==
    ~CleanupStarted => \A k \in StoredMessages :
        LET row  == RowIndex(MsgRow(k))
            last == Maximum(StoredInRow(row))
        IN  /\ \A j \in 1..Len(searchArray) :
                  outputMatrix[row][j] = FileFields(FileLines(console[last].file))[j]
            /\ outputMatrix[row][FlagColumn] = PyInt(1)

C6_Witness ==
    /\ pc = "months"
    /\ \E k1, k2 \in StoredMessages :
          /\ k1 < k2
          /\ MsgBillingMonth(k1) = 5 /\ MsgCycle(k1) = 15
          /\ MsgRow(k1) = MsgRow(k2)
          /\ \A j \in 1..Len(searchArray) :
                FileFields(FileLines(console[k1].file))[j] = PyInt(42)
          /\ FileFields(FileLines(console[k2].file))[7] = Missing
    /\ \A j \in 1..6 : outputMatrix[515][j] = PyInt(7)
    /\ outputMatrix[515][7] = Missing
    /\ outputMatrix[515][FlagColumn] = PyInt(1)

---------------------------------------------------------------------------
(* The row at position i of output.csv when the sections of the months of  *)
(* outputMonthsArray follow one another: one title row, one headings row,  *)
(* the rows of cycles 1..cyclesPerBillingMonth in ascending order (the     *)
(* cell's seven values when the cell is flagged, empty fields otherwise)   *)
(* and one blank row.                                                      *)
ExpectedRow(i) ==
    LET month  == outputMonthsArray[((i - 1) \div SectionLength) + 1].n
        offset == ((i - 1) % SectionLength) + 1
        cycle  == offset - 2
        cell   == outputMatrix[month * 100 + cycle]
    IN  CASE offset = 1 -> <<PyStr(MonthNames[month])>>
          [] offset = 2 ->
               [column \in 1..Len(csvHeadingArray) |-> PyStr(csvHeadingArray[column])]
          [] offset = SectionLength -> <<PyStr("")>>
          [] OTHER ->
               [j \in 1..(Len(searchArray) + 1) |->
                   IF j = 1 THEN PyInt(cycle)
                   ELSE IF cell[FlagColumn] = PyInt(1) THEN cell[j - 1]
                   ELSE PyStr("")]

BuildCompleted == \E k \in 1..Len(console) : console[k].msg = "created successfully"

---------------------------------------------------------------------------
(* The orders in which the files of the run can be processed. *)
Orders(files) ==
    {[i \in 1..Len(files) |-> files[p[i]]] :
        p \in {q \in [1..Len(files) -> 1..Len(files)] :
                  \A a, b \in 1..Len(files) : a # b => q[a] # q[b]}}

(* C8: the month sections of output.csv are in strictly ascending order of *)
(* billing month, and a run over the same files in any other order emits   *)
(* the same sequence of month sections.                                    *)
C8_SectionsAscendingInAnyOrder ==
    pc = "done" =>
        /\ \A s, t \in 1..Len(outputMonthsArray) :
              s < t => outputMonthsArray[s].n < outputMonthsArray[t].n
        /\ \A files \in Orders(fileArray) :
              EmittedMonths(files, NoWriteFails) =
                  [s \in 1..Len(outputMonthsArray) |-> outputMonthsArray[s].n]

---------------------------------------------------------------------------
(* C9: every file is stored in a row of index 100..1299 whose month label  *)
(* is the billing month computed for the file, whatever its read cycle.    *)
C9_StoredInRowOfBillingMonth ==
    \A k \in StoredMessages :
        /\ MsgRow(k) \in 100..1299
        /\ outputMatrix[RowIndex(MsgRow(k))][0] = PyInt(MsgBillingMonth(k))

---------------------------------------------------------------------------
(* The positions in output.csv of the data row of a matrix row. *)
DataRowsOf(row) ==
    {i \in 1..Len(csvOutputFile.rows) :
        \E s \in 1..Len(outputMonthsArray), c \in 1..cyclesPerBillingMonth :
            /\ outputMonthsArray[s].n * 100 + c = row
            /\ i = (s - 1) * SectionLength + 2 + c
            /\ csvOutputFile.rows[i] =
                  <<PyInt(c)>> \o [j \in 1..Len(searchArray) |-> outputMatrix[row][j]]}

(* C10: when output.csv is written, every flagged row of the matrix is one *)
(* data row of its month's section, and every month section has a data     *)
(* row.                                                                    *)
C10_FlaggedRowsRendered ==
    pc = "done" =>
        /\ \A row \in FlaggedRows(outputMatrix) : Cardinality(DataRowsOf(row)) = 1
        /\ \A s \in 1..Len(outputMonthsArray) :
              \E c \in 1..cyclesPerBillingMonth :
                  outputMatrix[outputMonthsArray[s].n * 100 + c][FlagColumn] = PyInt(1)

====
